---- MODULE Spec2Model ----
(***************************************************************************)
(* Model of the storage orchestrator of DRPTM-WEB (src/server/db.ts): the  *)
(* lazily initialised persistence gateway, the DatabaseStorage class with  *)
(* its availability flag, freshness cache and in-memory fallback data, and *)
(* the relational store behind it.  One action is one resumption of an     *)
(* async method: the store executes the awaited query and the code up to   *)
(* the next await runs, which is atomic on the JavaScript event loop.      *)
(***************************************************************************)
EXTENDS Integers, Sequences, FiniteSets, TLC

\* ---------------------------------------------------------------- bounds
MaxRows == 2        \* rows the readings table may hold
MaxTicks == 1       \* advances of the clock, one freshness window each
MaxRetry == 2       \* recursive re-entries of getSensorReadings that are followed
MaxFallback == 2    \* createSensorReading starts only below this fallback length
MaxCalls == 2       \* operations started by clients in one run
MaxFetchTicks == 3  \* advances of the clock during one fetchLatestReading
MaxGatewayCalls == 5  \* calls of the gateway's accessors from module load on

\* ------------------------------------------------------ program constants
cacheTimeout == 10000
DefaultLimit == 50
FetchTimeout == 10000

\* The clock starts one freshness window after lastExternalFetchTime = 0 (Date.now()
\* is far from the epoch, so the first read is never inside the window) and
\* advances a window at a time.
TickStep == cacheTimeout
StartTime == cacheTimeout
MaxTime == StartTime + MaxTicks * TickStep

Procs == {"p1", "p2"}
Limits == {0, 1, DefaultLimit}
Ranges == {<<0, MaxTime>>, <<MaxTime, 0>>}
AlertInputs == {[temperatureAlerts |-> FALSE, phAlerts |-> FALSE, tdsLevelAlerts |-> TRUE]}
StatusInputs == {[connectionStatus |-> "error"]}
Synthetic == {"seed", "sample", "fallback"}

VARIABLES
  configured,             \* process.env.DATABASE_URL is set
  env,                    \* process.env.NODE_ENV
  now,                    \* Date.now()
  readings,               \* table sensor_readings, in insertion order
  statusRows,             \* table system_status
  alertRows,              \* table alert_settings
  databaseAvailable,      \* DatabaseStorage.databaseAvailable
  lastExternalFetchTime,  \* DatabaseStorage.lastExternalFetchTime
  fallbackData,           \* DatabaseStorage.fallbackData
  initPc,                 \* position of the constructor's initializeDefaults
  pc, op, loc,            \* per caller: await point, public method, locals
  step,                   \* the store operation or external fetch the last step resolved
  ret,                    \* the value the last step returned to a client
  xfetch,                 \* the external fetch the last step issued
  hist,                   \* what has happened so far in this run
  fx,                     \* one call of fetchLatestReading, against the clock
  dx,                     \* the last call of decodeHexData
  gw,                     \* the gateway: _db/_pool, _databaseAvailable, its console
  ax                      \* one call of AntaresService.fetchLatestData

vars == <<configured, env, now, readings, statusRows, alertRows, databaseAvailable,
          lastExternalFetchTime, fallbackData, initPc, pc, op, loc, step, ret,
          xfetch, hist, fx, dx, gw, ax>>

\* the components beside the orchestrator: fetcher, decoder, gateway, Antares
parts == <<fx, dx, gw, ax>>

storageVars == <<configured, env, now, readings, statusRows, alertRows,
                 databaseAvailable, lastExternalFetchTime, fallbackData, initPc, pc,
                 op, loc, step, ret, xfetch, hist>>

\* --------------------------------------------------------------- helpers
Min(a, b) == IF a < b THEN a ELSE b

Take(s, n) == SubSeq(s, 1, Min(n, Len(s)))

Reverse(s) == [i \in 1..Len(s) |-> s[Len(s) + 1 - i]]

RECURSIVE SelectSeq2(_, _, _)
SelectSeq2(s, lo, hi) ==
  IF s = <<>> THEN <<>>
  ELSE IF lo <= Head(s).at /\ Head(s).at <= hi
       THEN <<Head(s)>> \o SelectSeq2(Tail(s), lo, hi)
       ELSE SelectSeq2(Tail(s), lo, hi)

Reading(k, t) == [kind |-> k, at |-> t]

NoStep == [outcome |-> "none"]
NoRet == [kind |-> "none"]
NoFetch == [kind |-> "none"]

Locals0 ==
  [fnow |-> 0, ext |-> FALSE, cnt |-> 0, upd |-> <<>>, cur |-> 0, via |-> "none",
   limit |-> 0, retries |-> 0, probe |-> FALSE, row |-> <<>>, arg |-> <<>>,
   fetched |-> FALSE]

\* ------------------------------------------- the decoder (decodeHexData)
\* Strings that the code indexes are sequences of one-character strings.
HexChars == <<"0", "1", "2", "3", "4", "5", "6", "7", "8", "9",
              "A", "B", "C", "D", "E", "F">>

LowerHex == <<"a", "b", "c", "d", "e", "f">>

IsLowerHex(c) == \E i \in DOMAIN LowerHex : LowerHex[i] = c

IsHexChar(c) == (\E i \in DOMAIN HexChars : HexChars[i] = c) \/ IsLowerHex(c)

DigitVal(c) ==
  IF IsLowerHex(c) THEN 9 + (CHOOSE i \in DOMAIN LowerHex : LowerHex[i] = c)
  ELSE (CHOOSE i \in DOMAIN HexChars : HexChars[i] = c) - 1

\* a JavaScript number: NaN, or the fraction num / den
NaN == [nan |-> TRUE, num |-> 0, den |-> 1]
Num(k, d) == [nan |-> FALSE, num |-> k, den |-> d]

\* the value of the longest prefix of hex digits, NaN when that prefix is empty
RECURSIVE ParseHexFrom(_, _, _)
ParseHexFrom(s, acc, seen) ==
  IF s # <<>> /\ IsHexChar(Head(s))
  THEN ParseHexFrom(Tail(s), acc * 16 + DigitVal(Head(s)), TRUE)
  ELSE IF seen THEN Num(acc, 1) ELSE NaN

RECURSIVE SkipSpace(_)
SkipSpace(s) == IF s # <<>> /\ Head(s) = " " THEN SkipSpace(Tail(s)) ELSE s

\* parseInt(s, 16): leading white space is skipped, then an optional sign and
\* an optional 0x, then hex digits up to the first character that is none
ParseInt16(s) ==
  LET t == SkipSpace(s)
      signed == t # <<>> /\ t[1] \in {"-", "+"}
      u == IF signed THEN Tail(t) ELSE t
      v == IF Len(u) >= 2 /\ u[1] = "0" /\ u[2] \in {"x", "X"}
           THEN SubSeq(u, 3, Len(u)) ELSE u
      r == ParseHexFrom(v, 0, FALSE)
  IN IF r.nan THEN NaN
     ELSE IF signed /\ t[1] = "-" THEN Num(0 - r.num, 1) ELSE r

\* s.substr(start, n): clipped to the string, empty past its end
Substr(s, start, n) == SubSeq(s, start + 1, Min(start + n, Len(s)))

Field_Unscaled(hex, off, d) == ParseInt16(Substr(hex, off, 4))

\* parseInt(hexString.substr(off, 4), 16) / d
Field(hex, off, d) ==
  LET v == ParseInt16(Substr(hex, off, 4)) IN IF v.nan THEN NaN ELSE Num(v.num, d)

StartsWith(s, a, b) == Len(s) >= 2 /\ s[1] = a /\ s[2] = b

Null == [null |-> TRUE]

decodeHexData_AssumeHydro(hex, dev) ==
  IF StartsWith(dev, "C", "Z")
  THEN [ph |-> Field(hex, 0, 100), moisture |-> Field(hex, 4, 10),
        ec |-> Field(hex, 8, 100), temperature |-> Field(hex, 12, 10)]
  ELSE IF StartsWith(dev, "M", "Z") \/ StartsWith(dev, "S", "Z")
  THEN [ph |-> Field(hex, 0, 100), ec |-> Field(hex, 4, 100),
        temperature |-> Field(hex, 8, 10)]
  ELSE IF StartsWith(dev, "G", "Z")
  THEN [temperature |-> Field(hex, 0, 10), humidity |-> Field(hex, 4, 10),
        light |-> Field(hex, 8, 1)]
  ELSE [ph |-> Field(hex, 0, 100), tdsLevel |-> Field(hex, 4, 10),
        temperature |-> Field(hex, 8, 10)]

decodeHexData(hex, dev) ==
  IF StartsWith(dev, "C", "Z")
  THEN [ph |-> Field(hex, 0, 100), moisture |-> Field(hex, 4, 10),
        ec |-> Field(hex, 8, 100), temperature |-> Field(hex, 12, 10)]
  ELSE IF StartsWith(dev, "M", "Z") \/ StartsWith(dev, "S", "Z")
  THEN [ph |-> Field(hex, 0, 100), ec |-> Field(hex, 4, 100),
        temperature |-> Field(hex, 8, 10)]
  ELSE IF StartsWith(dev, "G", "Z")
  THEN [temperature |-> Field(hex, 0, 10), humidity |-> Field(hex, 4, 10),
        light |-> Field(hex, 8, 1)]
  ELSE IF StartsWith(dev, "H", "Z")
  THEN [ph |-> Field(hex, 0, 100), tdsLevel |-> Field(hex, 4, 10),
        temperature |-> Field(hex, 8, 10)]
  ELSE Null

\* ------------------------------------- the fetcher (fetchLatestReading)
\* x || y on numbers: an absent field, NaN and 0 are falsy
Truthy(rec, f) == f \in DOMAIN rec /\ ~rec[f].nan /\ rec[f].num # 0

OrZero(rec, f) == IF Truthy(rec, f) THEN rec[f] ELSE Num(0, 1)

\* adaptedData (lines 131-142), identifier and timestamp left out
Adapt(decoded) ==
  [null |-> FALSE,
   temperature |-> OrZero(decoded, "temperature"),
   ph |-> OrZero(decoded, "ph"),
   tdsLevel |-> IF Truthy(decoded, "tdsLevel") THEN decoded.tdsLevel
                ELSE OrZero(decoded, "ec")]

UnknownDevice == <<"U", "N", "K", "N", "O", "W", "N">>

\* lines 112-146 on a parsed body: an absent or empty field is <<>>
FromData(data) ==
  LET deviceCode == IF data.device_code # <<>> THEN data.device_code ELSE UnknownDevice
      encodedData == data.encoded_data
  IN IF encodedData = <<>> THEN Null
     ELSE LET decodedData == decodeHexData(encodedData, deviceCode)
          IN IF "null" \in DOMAIN decodedData THEN Null ELSE Adapt(decodedData)

\* What the upstream does with one request: the connection (refused, never
\* answered, answered), the status class, the content-type header, the body
\* (never completed, not JSON, the JSON value null, a JSON object) and the two
\* fields of the object that the code reads.
Up(net, ok, ctype, body, dev, enc) ==
  [net |-> net, ok |-> ok, ctype |-> ctype, body |-> body,
   data |-> [device_code |-> dev, encoded_data |-> enc]]

HZ1 == <<"H", "Z", "1">>
XX1 == <<"X", "X", "1">>
WellFormedHex == <<"0", "2", "B", "C", "0", "7", "D", "0", "0", "0", "F", "0">>
TruncatedHex == <<"0", "2", "B", "C", "0", "7">>
NonHex == <<"Z", "Z", "Z", "Z", "0", "7", "D", "0", "0", "0", "F", "0">>
SaturatedHex == <<"F", "F", "F", "F", "F", "F", "F", "F", "F", "F", "F", "F">>

Devices == {<<>>, HZ1, XX1}
Payloads == {<<>>, WellFormedHex, TruncatedHex, NonHex}

Upstreams ==
  {Up(n, TRUE, "json", "object", <<>>, <<>>) : n \in {"refused", "silent"}}
    \cup {Up("answers", FALSE, "json", b, <<>>, <<>>) : b \in {"stall", "invalid"}}
    \cup {Up("answers", TRUE, c, "object", HZ1, WellFormedHex) : c \in {"html", "none"}}
    \cup {Up("answers", TRUE, "json", b, <<>>, <<>>) : b \in {"stall", "invalid", "null"}}
    \cup {Up("answers", TRUE, "json", "object", d, e) : d \in Devices, e \in Payloads}

\* the answers the orchestrator's fetches are run against, by name: a network
\* failure, a wrong content-type, and JSON objects for device HZ1 with each
\* payload and with the greatest 16-bit value in every chunk
Answers ==
  {"refused", "html", "missing", "wellformed", "truncated", "nonhex", "saturated"}

Answer(a) ==
  CASE a = "refused" -> Up("refused", TRUE, "json", "object", <<>>, <<>>)
    [] a = "html" -> Up("answers", TRUE, "html", "object", HZ1, WellFormedHex)
    [] a = "missing" -> Up("answers", TRUE, "json", "object", HZ1, <<>>)
    [] a = "wellformed" -> Up("answers", TRUE, "json", "object", HZ1, WellFormedHex)
    [] a = "truncated" -> Up("answers", TRUE, "json", "object", HZ1, TruncatedHex)
    [] a = "nonhex" -> Up("answers", TRUE, "json", "object", HZ1, NonHex)
    [] a = "saturated" -> Up("answers", TRUE, "json", "object", HZ1, SaturatedHex)

\* the outcome of one resumption of fetchLatestReading
Await(label) == [kind |-> "await", at |-> label, val |-> Null]
Throw == [kind |-> "throw", at |-> "none", val |-> Null]
Ret(v) == [kind |-> "return", at |-> "none", val |-> v]

\* lines 76-108 once `await fetch(...)` has settled
AfterFetch(u) ==
  IF u.net # "answers" THEN Throw
  ELSE IF ~u.ok THEN Await("text")
  ELSE IF u.ctype # "json" THEN Throw
  ELSE Await("json")

\* lines 96-100 once `await response.text()` has settled
AfterText(u) == Throw

\* lines 108-146 once `await response.json()` has settled
AfterJson(u) ==
  IF u.body # "object" THEN Throw ELSE Ret(FromData(u.data))

\* catch (lines 147-150)
Caught_Rethrow(o) == o
Caught(o) == IF o.kind = "throw" THEN Ret(Null) ELSE o

\* the value a call that completes resolves to
fetchLatestReading(u) ==
  LET a == Caught(AfterFetch(u)) IN
    IF a.kind # "await" THEN a.val
    ELSE IF a.at = "text" THEN Caught(AfterText(u)).val
    ELSE Caught(AfterJson(u)).val

\* ------------------------------------------------------------- the gateway
\* initializeDatabase: with a connection string the pool and handle are built
\* without touching the network, so the accessor reports available; without
\* one it reports unavailable with no handle.
Available == configured

\* ------------------------------------------------- fragments of the code
CacheFresh(n, last) == n - last < cacheTimeout

IsDevelopment_Inverted(e) == e # "development"
IsDevelopment(e) == e = "development"

\* the values of the status row that initializeDefaults and updateSystemStatus insert
DefaultStatus == [connectionStatus |-> "connected", dataPoints |-> 0]

\* fallbackData.systemStatus as constructed
FallbackStatus == [connectionStatus |-> "connected", dataPoints |-> 0]

\* what getSystemStatus answers when the table holds no row
StatusIfNone_Disconnected == [connectionStatus |-> "disconnected", dataPoints |-> 0]
StatusIfNone == [connectionStatus |-> "connected", dataPoints |-> 0]

DefaultAlerts == [temperatureAlerts |-> TRUE, phAlerts |-> TRUE, tdsLevelAlerts |-> FALSE]

\* { ...row, ...statusUpdate }: the fields of the partial update win
MergeStatus(row, u) ==
  [connectionStatus |-> IF "connectionStatus" \in DOMAIN u THEN u.connectionStatus
                        ELSE row.connectionStatus,
   dataPoints |-> IF "dataPoints" \in DOMAIN u THEN u.dataPoints ELSE row.dataPoints]

WithSample_AsIs(list, t) == list

WithSample(list, t) == IF list = <<>> THEN <<Reading("sample", t)>> ELSE list

FetchPc(n) == IF Available /\ CacheFresh(n, lastExternalFetchTime) THEN "F_cache" ELSE "F_ext"

Issue(p, n) ==
  [kind |-> "issued", p |-> p, fresh |-> CacheFresh(n, lastExternalFetchTime),
   avail |-> Available, again |-> loc[p].fetched]

LocOk(p) == [loc EXCEPT ![p].probe = @ \/ ~databaseAvailable]
LocFail == [q \in Procs |-> [loc[q] EXCEPT !.probe = FALSE]]

Failed == [hist EXCEPT !.failed = TRUE]
Called == [hist EXCEPT !.calls = @ + 1]

\* updateAlertSettings returns on the settings a
Updated(h, a) == [h EXCEPT !.alerts = <<a>>]

\* ------------------------------------------- control transfer (in memory)
\* `return v` of the public method o of caller p, leaving the flag f and the
\* fallback data fb behind.
Return(p, o, v, src, f, fb, L) ==
  /\ pc' = [pc EXCEPT ![p] = "idle"]
  /\ op' = [op EXCEPT ![p] = "none"]
  /\ loc' = [L EXCEPT ![p] = Locals0]
  /\ ret' = [kind |-> "ret", p |-> p, op |-> o, val |-> v, src |-> src,
             probe |-> L[p].probe, ext |-> L[p].ext,
             limit |-> L[p].limit, arg |-> L[p].arg]
  /\ databaseAvailable' = f
  /\ fallbackData' = fb

\* run on to the next await
Goto(p, o, label, f, fb, L) ==
  /\ pc' = [pc EXCEPT ![p] = label]
  /\ op' = [op EXCEPT ![p] = o]
  /\ loc' = L
  /\ ret' = NoRet
  /\ databaseAvailable' = f
  /\ fallbackData' = fb

LeaveFetch(L, p) ==
  [L EXCEPT ![p] = [Locals0 EXCEPT !.limit = L[p].limit, !.retries = L[p].retries,
                                   !.probe = L[p].probe, !.arg = L[p].arg,
                                   !.fetched = L[p].fetched]]

\* getSensorReadings after `await this.fetchFromExternalDatabase()`
GetReadingsAfterFetch(p, f, fb, L) ==
  IF ~f \/ ~Available
  THEN LET list == WithSample(fb.sensorReadings, now) IN
       Return(p, op[p], Take(list, L[p].limit), "fallback", FALSE,
              [fb EXCEPT !.sensorReadings = list], L)
  ELSE Goto(p, op[p], "G_select", f, fb, LeaveFetch(L, p))

\* getSensorReadingsByTimeRange after `await this.fetchFromExternalDatabase()`
TimeRangeAfterFetch(p, f, fb, L) ==
  IF ~Available
  THEN Return(p, op[p], fb.sensorReadings, "fallback", f, fb, L)
  ELSE Goto(p, op[p], "R_select", f, fb, LeaveFetch(L, p))

\* fetchFromExternalDatabase returns to the read that awaits it
FetchReturn(p, f, fb, L) ==
  IF op[p] = "getSensorReadings"
  THEN GetReadingsAfterFetch(p, f, fb, L)
  ELSE TimeRangeAfterFetch(p, f, fb, L)

\* updateSystemStatus returns to its caller
UpdateStatusReturn(p, f, fb, L, val, src) ==
  CASE L[p].via = "client" -> Return(p, op[p], val, src, f, fb, L)
    [] L[p].via = "create" -> Return(p, op[p], L[p].row, "store", f, fb, L)
    [] L[p].via = "fetch" -> FetchReturn(p, f, fb, L)

Ok(p, at) == [outcome |-> "ok", p |-> p, at |-> at]
Fetched(p, a) == [outcome |-> "fetch", p |-> p, at |-> "F_ext", up |-> a]
Fail(p, at) == [outcome |-> "fail", p |-> p, at |-> at]

Idle(p) == pc[p] = "idle"

\* --------------------------------------------------------------- the clock
Tick ==
  /\ now + TickStep <= MaxTime
  /\ now' = now + TickStep
  /\ step' = NoStep /\ ret' = NoRet /\ xfetch' = NoFetch
  /\ UNCHANGED <<configured, env, parts, readings, statusRows, alertRows,
                 databaseAvailable, lastExternalFetchTime, fallbackData, initPc, pc,
                 op, loc, hist>>

\* ------------------------------------------------ fetchFromExternalDatabase
F_cache_ok(p) ==
  /\ pc[p] = "F_cache"
  /\ IF readings # <<>>
     THEN FetchReturn(p, databaseAvailable, fallbackData, LocOk(p)) /\ xfetch' = NoFetch
     ELSE /\ Goto(p, op[p], "F_ext", databaseAvailable, fallbackData,
                  [LocOk(p) EXCEPT ![p].fetched = TRUE])
          /\ xfetch' = Issue(p, loc[p].fnow)
  /\ step' = Ok(p, "F_cache")
  /\ UNCHANGED <<configured, env, parts, now, readings, statusRows, alertRows,
                 lastExternalFetchTime, initPc, hist>>

F_cache_fail(p) ==
  /\ pc[p] = "F_cache"
  /\ Goto(p, op[p], "F_ext", FALSE, fallbackData, [LocFail EXCEPT ![p].fetched = TRUE])
  /\ xfetch' = Issue(p, loc[p].fnow)
  /\ step' = Fail(p, "F_cache")
  /\ hist' = Failed
  /\ UNCHANGED <<configured, env, parts, now, readings, statusRows, alertRows,
                 lastExternalFetchTime, initPc>>

F_ext(p) ==
  /\ pc[p] = "F_ext"
  /\ \E a \in Answers :
       /\ LET externalData == fetchLatestReading(Answer(a)) IN
            /\ IF externalData.null
               THEN /\ FetchReturn(p, databaseAvailable, fallbackData, loc)
                    /\ UNCHANGED lastExternalFetchTime
               ELSE /\ lastExternalFetchTime' = loc[p].fnow
                    /\ IF Available
                       THEN Goto(p, op[p], "F_insert", databaseAvailable, fallbackData,
                                 [loc EXCEPT ![p].ext = TRUE])
                       ELSE FetchReturn(p, databaseAvailable, fallbackData,
                                        [loc EXCEPT ![p].ext = TRUE])
            /\ step' = Fetched(p, a)
  /\ xfetch' = NoFetch
  /\ UNCHANGED <<configured, env, parts, now, readings, statusRows, alertRows, initPc, hist>>

F_insert_ok(p) ==
  /\ pc[p] = "F_insert"
  /\ Len(readings) < MaxRows
  /\ readings' = Append(readings, Reading("ext", now))
  /\ Goto(p, op[p], "F_count", TRUE, fallbackData,
          [LocOk(p) EXCEPT ![p].row = Reading("ext", now)])
  /\ step' = Ok(p, "F_insert") /\ xfetch' = NoFetch
  /\ UNCHANGED <<configured, env, parts, now, statusRows, alertRows, lastExternalFetchTime,
                 initPc, hist>>

F_count_ok(p) ==
  /\ pc[p] = "F_count"
  /\ Goto(p, op[p], "U_select", databaseAvailable, fallbackData,
          [LocOk(p) EXCEPT ![p].cnt = Len(readings),
                           ![p].upd = [dataPoints |-> Len(readings)],
                           ![p].via = "fetch"])
  /\ step' = Ok(p, "F_count") /\ xfetch' = NoFetch
  /\ UNCHANGED <<configured, env, parts, now, readings, statusRows, alertRows,
                 lastExternalFetchTime, initPc, hist>>

\* catch of the insert / recount block (lines 224-227), then the plain object
F_store_fail(p) ==
  /\ pc[p] \in {"F_insert", "F_count"}
  /\ FetchReturn(p, FALSE, fallbackData, LocFail)
  /\ step' = Fail(p, pc[p]) /\ xfetch' = NoFetch
  /\ hist' = Failed
  /\ UNCHANGED <<configured, env, parts, now, readings, statusRows, alertRows,
                 lastExternalFetchTime, initPc>>

\* ------------------------------------------------------ updateSystemStatus
StartUpdateSystemStatus(p) ==
  /\ Idle(p)
  /\ hist.calls < MaxCalls
  /\ \E u \in StatusInputs :
       IF ~Available
       THEN LET fb == [fallbackData EXCEPT !.systemStatus = MergeStatus(@, u)] IN
            Return(p, "updateSystemStatus", fb.systemStatus, "fallback",
                   databaseAvailable, fb, loc)
       ELSE Goto(p, "updateSystemStatus", "U_select", databaseAvailable, fallbackData,
                 [loc EXCEPT ![p].upd = u, ![p].via = "client"])
  /\ hist' = [Called EXCEPT !.clientConn = TRUE]
  /\ step' = NoStep /\ xfetch' = NoFetch
  /\ UNCHANGED <<configured, env, parts, now, readings, statusRows, alertRows,
                 lastExternalFetchTime, initPc>>

U_select_ok(p) ==
  /\ pc[p] = "U_select"
  /\ IF statusRows = <<>>
     THEN Goto(p, op[p], "U_insert", databaseAvailable, fallbackData, LocOk(p))
     ELSE \E i \in DOMAIN statusRows :
            Goto(p, op[p], "U_update", databaseAvailable, fallbackData,
                 [LocOk(p) EXCEPT ![p].cur = i])
  /\ step' = Ok(p, "U_select") /\ xfetch' = NoFetch
  /\ UNCHANGED <<configured, env, parts, now, readings, statusRows, alertRows,
                 lastExternalFetchTime, initPc, hist>>

U_insert_ok(p) ==
  /\ pc[p] = "U_insert"
  /\ LET row == MergeStatus(DefaultStatus, loc[p].upd) IN
       /\ statusRows' = Append(statusRows, row)
       /\ UpdateStatusReturn(p, databaseAvailable, fallbackData, LocOk(p), row, "row")
  /\ step' = Ok(p, "U_insert") /\ xfetch' = NoFetch
  /\ UNCHANGED <<configured, env, parts, now, readings, alertRows, lastExternalFetchTime,
                 initPc, hist>>

U_update_ok(p) ==
  /\ pc[p] = "U_update"
  /\ LET row == MergeStatus(statusRows[loc[p].cur], loc[p].upd) IN
       /\ statusRows' = [statusRows EXCEPT ![loc[p].cur] = row]
       /\ UpdateStatusReturn(p, databaseAvailable, fallbackData, LocOk(p), row, "row")
  /\ step' = Ok(p, "U_update") /\ xfetch' = NoFetch
  /\ UNCHANGED <<configured, env, parts, now, readings, alertRows, lastExternalFetchTime,
                 initPc, hist>>

U_fail_ResetAlerts(p) ==
  /\ pc[p] \in {"U_select", "U_insert", "U_update"}
  /\ LET fb == [fallbackData EXCEPT
                 !.systemStatus = MergeStatus(@, loc[p].upd),
                 !.alertSettings = [temperatureAlerts |-> FALSE, phAlerts |-> FALSE,
                                    tdsLevelAlerts |-> FALSE]] IN
       UpdateStatusReturn(p, FALSE, fb, LocFail, fb.systemStatus, "fallback")
  /\ step' = Fail(p, pc[p]) /\ xfetch' = NoFetch
  /\ hist' = Failed
  /\ UNCHANGED <<configured, env, parts, now, readings, statusRows, alertRows,
                 lastExternalFetchTime, initPc>>

U_fail(p) ==
  /\ pc[p] \in {"U_select", "U_insert", "U_update"}
  /\ LET fb == [fallbackData EXCEPT !.systemStatus = MergeStatus(@, loc[p].upd)] IN
       UpdateStatusReturn(p, FALSE, fb, LocFail, fb.systemStatus, "fallback")
  /\ step' = Fail(p, pc[p]) /\ xfetch' = NoFetch
  /\ hist' = Failed
  /\ UNCHANGED <<configured, env, parts, now, readings, statusRows, alertRows,
                 lastExternalFetchTime, initPc>>

\* ------------------------------------------------------- getSensorReadings
StartGetSensorReadings(p) ==
  /\ Idle(p)
  /\ hist.calls < MaxCalls
  /\ \E lim \in Limits :
       Goto(p, "getSensorReadings", FetchPc(now), databaseAvailable, fallbackData,
            [loc EXCEPT ![p].limit = lim, ![p].fnow = now,
                        ![p].fetched = FetchPc(now) = "F_ext"])
  /\ xfetch' = IF FetchPc(now) = "F_ext" THEN Issue(p, now) ELSE NoFetch
  /\ step' = NoStep
  /\ hist' = Called
  /\ UNCHANGED <<configured, env, parts, now, readings, statusRows, alertRows,
                 lastExternalFetchTime, initPc>>

G_select_ok(p) ==
  /\ pc[p] = "G_select"
  /\ LET rows == Take(Reverse(readings), loc[p].limit)
         sample == Reading("fallback", now)
     IN IF rows # <<>>
        THEN Return(p, op[p], rows, "store", TRUE, fallbackData, LocOk(p))
        ELSE IF IsDevelopment(env)
        THEN Goto(p, op[p], "G_seed", TRUE, fallbackData, LocOk(p))
        ELSE Return(p, op[p], <<sample>>, "empty", TRUE,
                    [fallbackData EXCEPT !.sensorReadings = <<sample>>], LocOk(p))
  /\ step' = Ok(p, "G_select") /\ xfetch' = NoFetch
  /\ UNCHANGED <<configured, env, parts, now, readings, statusRows, alertRows,
                 lastExternalFetchTime, initPc, hist>>

G_seed_ok(p) ==
  /\ pc[p] = "G_seed"
  /\ Len(readings) < MaxRows
  /\ readings' = Append(readings, Reading("seed", now))
  /\ Return(p, op[p], <<Reading("seed", now)>>, "seed", databaseAvailable,
            fallbackData, LocOk(p))
  /\ step' = Ok(p, "G_seed") /\ xfetch' = NoFetch
  /\ UNCHANGED <<configured, env, parts, now, statusRows, alertRows, lastExternalFetchTime,
                 initPc, hist>>

\* catch (lines 326-330): the flag goes down and the method calls itself, which
\* starts with fetchFromExternalDatabase again
G_fail(p) ==
  /\ pc[p] \in {"G_select", "G_seed"}
  /\ loc[p].retries < MaxRetry
  /\ Goto(p, op[p], FetchPc(now), FALSE, fallbackData,
          [LocFail EXCEPT ![p].retries = @ + 1, ![p].fnow = now,
                          ![p].fetched = @ \/ FetchPc(now) = "F_ext"])
  /\ xfetch' = IF FetchPc(now) = "F_ext" THEN Issue(p, now) ELSE NoFetch
  /\ step' = Fail(p, pc[p])
  /\ hist' = Failed
  /\ UNCHANGED <<configured, env, parts, now, readings, statusRows, alertRows,
                 lastExternalFetchTime, initPc>>

\* ------------------------------------------- getSensorReadingsByTimeRange
StartGetSensorReadingsByTimeRange(p) ==
  /\ Idle(p)
  /\ hist.calls < MaxCalls
  /\ \E rg \in Ranges :
       Goto(p, "getSensorReadingsByTimeRange", FetchPc(now), databaseAvailable,
            fallbackData, [loc EXCEPT ![p].arg = rg, ![p].fnow = now,
                                      ![p].fetched = FetchPc(now) = "F_ext"])
  /\ xfetch' = IF FetchPc(now) = "F_ext" THEN Issue(p, now) ELSE NoFetch
  /\ step' = NoStep
  /\ hist' = Called
  /\ UNCHANGED <<configured, env, parts, now, readings, statusRows, alertRows,
                 lastExternalFetchTime, initPc>>

R_select_ok(p) ==
  /\ pc[p] = "R_select"
  /\ Return(p, op[p], SelectSeq2(readings, loc[p].arg[1], loc[p].arg[2]), "store",
            databaseAvailable, fallbackData, LocOk(p))
  /\ step' = Ok(p, "R_select") /\ xfetch' = NoFetch
  /\ UNCHANGED <<configured, env, parts, now, readings, statusRows, alertRows,
                 lastExternalFetchTime, initPc, hist>>

R_select_fail_Rethrow(p) ==
  /\ pc[p] = "R_select"
  /\ pc' = [pc EXCEPT ![p] = "idle"]
  /\ op' = [op EXCEPT ![p] = "none"]
  /\ loc' = [LocFail EXCEPT ![p] = Locals0]
  /\ ret' = [kind |-> "throw", p |-> p, op |-> op[p], val |-> <<>>, src |-> "error",
             probe |-> FALSE, ext |-> loc[p].ext,
             limit |-> loc[p].limit, arg |-> loc[p].arg]
  /\ databaseAvailable' = FALSE
  /\ step' = Fail(p, "R_select") /\ xfetch' = NoFetch
  /\ hist' = Failed
  /\ UNCHANGED <<configured, env, parts, now, readings, statusRows, alertRows,
                 lastExternalFetchTime, fallbackData, initPc>>

R_select_fail(p) ==
  /\ pc[p] = "R_select"
  /\ Return(p, op[p], fallbackData.sensorReadings, "fallback", FALSE, fallbackData,
            LocFail)
  /\ step' = Fail(p, "R_select") /\ xfetch' = NoFetch
  /\ hist' = Failed
  /\ UNCHANGED <<configured, env, parts, now, readings, statusRows, alertRows,
                 lastExternalFetchTime, initPc>>

\* ---------------------------------------------------- createSensorReading
StartCreateSensorReading(p) ==
  /\ Idle(p)
  /\ hist.calls < MaxCalls
  /\ Len(fallbackData.sensorReadings) < MaxFallback
  /\ IF ~Available
     THEN LET reading == Reading("memory", now) IN
          Return(p, "createSensorReading", reading, "fallback", databaseAvailable,
                 [fallbackData EXCEPT !.sensorReadings = <<reading>> \o @], loc)
     ELSE Goto(p, "createSensorReading", "C_insert", databaseAvailable, fallbackData, loc)
  /\ step' = NoStep /\ xfetch' = NoFetch
  /\ hist' = Called
  /\ UNCHANGED <<configured, env, parts, now, readings, statusRows, alertRows,
                 lastExternalFetchTime, initPc>>

C_insert_ok(p) ==
  /\ pc[p] = "C_insert"
  /\ Len(readings) < MaxRows
  /\ readings' = Append(readings, Reading("manual", now))
  /\ Goto(p, op[p], "C_count", databaseAvailable, fallbackData,
          [LocOk(p) EXCEPT ![p].row = Reading("manual", now)])
  /\ step' = Ok(p, "C_insert") /\ xfetch' = NoFetch
  /\ UNCHANGED <<configured, env, parts, now, statusRows, alertRows, lastExternalFetchTime,
                 initPc, hist>>

C_count_ok(p) ==
  /\ pc[p] = "C_count"
  /\ Goto(p, op[p], "U_select", databaseAvailable, fallbackData,
          [LocOk(p) EXCEPT ![p].cnt = Len(readings),
                           ![p].upd = [dataPoints |-> Len(readings)],
                           ![p].via = "create"])
  /\ step' = Ok(p, "C_count") /\ xfetch' = NoFetch
  /\ UNCHANGED <<configured, env, parts, now, readings, statusRows, alertRows,
                 lastExternalFetchTime, initPc, hist>>

\* catch (lines 391-403)
C_fail_KeepFlag(p) ==
  /\ pc[p] \in {"C_insert", "C_count"}
  /\ LET reading == Reading("memory", now) IN
     Return(p, op[p], reading, "fallback", databaseAvailable,
            [fallbackData EXCEPT !.sensorReadings = <<reading>> \o @], LocFail)
  /\ step' = Fail(p, pc[p]) /\ xfetch' = NoFetch
  /\ hist' = Failed
  /\ UNCHANGED <<configured, env, parts, now, readings, statusRows, alertRows,
                 lastExternalFetchTime, initPc>>

C_fail_Replace(p) ==
  /\ pc[p] \in {"C_insert", "C_count"}
  /\ LET reading == Reading("memory", now) IN
     Return(p, op[p], reading, "fallback", FALSE,
            [fallbackData EXCEPT !.sensorReadings = <<reading>>], LocFail)
  /\ step' = Fail(p, pc[p]) /\ xfetch' = NoFetch
  /\ hist' = Failed
  /\ UNCHANGED <<configured, env, parts, now, readings, statusRows, alertRows,
                 lastExternalFetchTime, initPc>>

C_fail(p) ==
  /\ pc[p] \in {"C_insert", "C_count"}
  /\ LET reading == Reading("memory", now) IN
     Return(p, op[p], reading, "fallback", FALSE,
            [fallbackData EXCEPT !.sensorReadings = <<reading>> \o @], LocFail)
  /\ step' = Fail(p, pc[p]) /\ xfetch' = NoFetch
  /\ hist' = Failed
  /\ UNCHANGED <<configured, env, parts, now, readings, statusRows, alertRows,
                 lastExternalFetchTime, initPc>>

\* --------------------------------------------------------- getSystemStatus
StartGetSystemStatus(p) ==
  /\ Idle(p)
  /\ hist.calls < MaxCalls
  /\ IF ~Available
     THEN Return(p, "getSystemStatus", fallbackData.systemStatus, "fallback",
                 databaseAvailable, fallbackData, loc)
     ELSE Goto(p, "getSystemStatus", "S_select", databaseAvailable, fallbackData, loc)
  /\ step' = NoStep /\ xfetch' = NoFetch
  /\ hist' = Called
  /\ UNCHANGED <<configured, env, parts, now, readings, statusRows, alertRows,
                 lastExternalFetchTime, initPc>>

S_select_ok(p) ==
  /\ pc[p] = "S_select"
  /\ IF statusRows = <<>>
     THEN Return(p, op[p], StatusIfNone, "default", TRUE, fallbackData, LocOk(p))
     ELSE \E i \in DOMAIN statusRows :
            Return(p, op[p], statusRows[i], "row", TRUE, fallbackData, LocOk(p))
  /\ step' = Ok(p, "S_select") /\ xfetch' = NoFetch
  /\ UNCHANGED <<configured, env, parts, now, readings, statusRows, alertRows,
                 lastExternalFetchTime, initPc, hist>>

S_select_fail(p) ==
  /\ pc[p] = "S_select"
  /\ Return(p, op[p], fallbackData.systemStatus, "fallback", FALSE, fallbackData, LocFail)
  /\ step' = Fail(p, "S_select") /\ xfetch' = NoFetch
  /\ hist' = Failed
  /\ UNCHANGED <<configured, env, parts, now, readings, statusRows, alertRows,
                 lastExternalFetchTime, initPc>>

\* -------------------------------------------------------- getAlertSettings
StartGetAlertSettings(p) ==
  /\ Idle(p)
  /\ hist.calls < MaxCalls
  /\ IF ~Available
     THEN Return(p, "getAlertSettings", fallbackData.alertSettings, "fallback",
                 databaseAvailable, fallbackData, loc)
     ELSE Goto(p, "getAlertSettings", "A_select", databaseAvailable, fallbackData, loc)
  /\ step' = NoStep /\ xfetch' = NoFetch
  /\ hist' = Called
  /\ UNCHANGED <<configured, env, parts, now, readings, statusRows, alertRows,
                 lastExternalFetchTime, initPc>>

A_select_ok(p) ==
  /\ pc[p] = "A_select"
  /\ IF alertRows = <<>>
     THEN Return(p, op[p], DefaultAlerts, "default", TRUE, fallbackData, LocOk(p))
     ELSE \E i \in DOMAIN alertRows :
            Return(p, op[p], alertRows[i], "row", TRUE, fallbackData, LocOk(p))
  /\ step' = Ok(p, "A_select") /\ xfetch' = NoFetch
  /\ UNCHANGED <<configured, env, parts, now, readings, statusRows, alertRows,
                 lastExternalFetchTime, initPc, hist>>

A_select_fail(p) ==
  /\ pc[p] = "A_select"
  /\ Return(p, op[p], fallbackData.alertSettings, "fallback", FALSE, fallbackData, LocFail)
  /\ step' = Fail(p, "A_select") /\ xfetch' = NoFetch
  /\ hist' = Failed
  /\ UNCHANGED <<configured, env, parts, now, readings, statusRows, alertRows,
                 lastExternalFetchTime, initPc>>

\* ----------------------------------------------------- updateAlertSettings
StartUpdateAlertSettings(p) ==
  /\ Idle(p)
  /\ hist.calls < MaxCalls
  /\ \E s \in AlertInputs :
       IF ~Available
       THEN /\ Return(p, "updateAlertSettings", s, "fallback", databaseAvailable,
                      [fallbackData EXCEPT !.alertSettings = s], loc)
            /\ hist' = Updated([Called EXCEPT !.alertsSet = TRUE], s)
       ELSE /\ Goto(p, "updateAlertSettings", "V_select", databaseAvailable, fallbackData,
                    [loc EXCEPT ![p].arg = s])
            /\ hist' = [Called EXCEPT !.alertsSet = TRUE]
  /\ step' = NoStep /\ xfetch' = NoFetch
  /\ UNCHANGED <<configured, env, parts, now, readings, statusRows, alertRows,
                 lastExternalFetchTime, initPc>>

V_select_ok(p) ==
  /\ pc[p] = "V_select"
  /\ IF alertRows = <<>>
     THEN Goto(p, op[p], "V_insert", databaseAvailable, fallbackData, LocOk(p))
     ELSE \E i \in DOMAIN alertRows :
            Goto(p, op[p], "V_update", databaseAvailable, fallbackData,
                 [LocOk(p) EXCEPT ![p].cur = i])
  /\ step' = Ok(p, "V_select") /\ xfetch' = NoFetch
  /\ UNCHANGED <<configured, env, parts, now, readings, statusRows, alertRows,
                 lastExternalFetchTime, initPc, hist>>

V_insert_ok(p) ==
  /\ pc[p] = "V_insert"
  /\ alertRows' = Append(alertRows, loc[p].arg)
  /\ Return(p, op[p], loc[p].arg, "row", databaseAvailable, fallbackData, LocOk(p))
  /\ step' = Ok(p, "V_insert") /\ xfetch' = NoFetch
  /\ hist' = Updated(hist, loc[p].arg)
  /\ UNCHANGED <<configured, env, parts, now, readings, statusRows, lastExternalFetchTime,
                 initPc>>

V_update_ok(p) ==
  /\ pc[p] = "V_update"
  /\ alertRows' = [alertRows EXCEPT ![loc[p].cur] = loc[p].arg]
  /\ Return(p, op[p], loc[p].arg, "row", databaseAvailable, fallbackData, LocOk(p))
  /\ step' = Ok(p, "V_update") /\ xfetch' = NoFetch
  /\ hist' = Updated(hist, loc[p].arg)
  /\ UNCHANGED <<configured, env, parts, now, readings, statusRows, lastExternalFetchTime,
                 initPc>>

V_fail(p) ==
  /\ pc[p] \in {"V_select", "V_insert", "V_update"}
  /\ Return(p, op[p], loc[p].arg, "fallback", FALSE,
            [fallbackData EXCEPT !.alertSettings = loc[p].arg], LocFail)
  /\ step' = Fail(p, pc[p]) /\ xfetch' = NoFetch
  /\ hist' = Updated(Failed, loc[p].arg)
  /\ UNCHANGED <<configured, env, parts, now, readings, statusRows, alertRows,
                 lastExternalFetchTime, initPc>>

\* ------------------------------------- the constructor's initializeDefaults
InitStep(next, f) ==
  /\ initPc' = next
  /\ databaseAvailable' = f
  /\ step' = Ok("init", initPc) /\ ret' = NoRet /\ xfetch' = NoFetch
  /\ UNCHANGED <<configured, env, parts, now, readings, lastExternalFetchTime, fallbackData,
                 pc, op, loc, hist>>

I_test_ok ==
  /\ initPc = "I_test"
  /\ InitStep("I_selStatus", databaseAvailable)
  /\ UNCHANGED <<statusRows, alertRows>>

I_selStatus_ok ==
  /\ initPc = "I_selStatus"
  /\ InitStep(IF statusRows = <<>> THEN "I_insStatus" ELSE "I_selAlerts", databaseAvailable)
  /\ UNCHANGED <<statusRows, alertRows>>

I_insStatus_ok ==
  /\ initPc = "I_insStatus"
  /\ statusRows' = Append(statusRows, DefaultStatus)
  /\ InitStep("I_selAlerts", databaseAvailable)
  /\ UNCHANGED alertRows

I_selAlerts_ok ==
  /\ initPc = "I_selAlerts"
  /\ IF alertRows = <<>>
     THEN InitStep("I_insAlerts", databaseAvailable)
     ELSE InitStep("done", TRUE)
  /\ UNCHANGED <<statusRows, alertRows>>

I_insAlerts_ok ==
  /\ initPc = "I_insAlerts"
  /\ alertRows' = Append(alertRows, DefaultAlerts)
  /\ InitStep("done", TRUE)
  /\ UNCHANGED statusRows

I_fail ==
  /\ initPc # "done"
  /\ initPc' = "done"
  /\ databaseAvailable' = FALSE
  /\ step' = Fail("init", initPc) /\ ret' = NoRet /\ xfetch' = NoFetch
  /\ loc' = LocFail
  /\ hist' = Failed
  /\ UNCHANGED <<configured, env, parts, now, readings, statusRows, alertRows,
                 lastExternalFetchTime, fallbackData, pc, op>>

\* ------------------------------ fetchLatestReading, step by step in time
\* fx.timer is the pending setTimeout of line 75; fx.elapsed the time since
\* the call.
FetchTick == FetchTimeout \div 2
MaxElapsed == MaxFetchTicks * FetchTick

FxIdle == [pc |-> "idle"]

\* the call settles with outcome o (a return, or an exception for the caller)
\* or suspends at the next await
FxAdvance(o, timer) ==
  /\ fx' = [fx EXCEPT !.pc = IF o.kind = "await" THEN o.at ELSE "done",
                      !.timer = timer, !.res = o]
  /\ UNCHANGED <<storageVars, dx, gw, ax>>

\* lines 71-87: up to `await fetch(...)`, the timer armed
FL_call ==
  /\ fx.pc \in {"idle", "done"}
  /\ \E u \in Upstreams :
       fx' = [pc |-> "fetch", up |-> u, elapsed |-> 0, timer |-> TRUE,
              res |-> Await("fetch")]
  /\ UNCHANGED <<storageVars, dx, gw, ax>>

\* time passes while the call is suspended; an armed timer fires at its time
FL_tick ==
  /\ fx.pc \in {"fetch", "text", "json"}
  /\ fx.elapsed + FetchTick <= MaxElapsed
  /\ ~(fx.timer /\ fx.elapsed >= FetchTimeout)
  /\ fx' = [fx EXCEPT !.elapsed = @ + FetchTick]
  /\ UNCHANGED <<storageVars, dx, gw, ax>>

\* the timer fires: controller.abort() rejects the pending fetch
FL_abort ==
  /\ fx.pc = "fetch" /\ fx.timer /\ fx.elapsed >= FetchTimeout
  /\ FxAdvance(Caught(Throw), FALSE)

\* the fetch settles before the timer: finally clears it (lines 88-90)
FL_settle ==
  /\ fx.pc = "fetch" /\ fx.up.net # "silent" /\ fx.elapsed < FetchTimeout
  /\ FxAdvance(Caught(AfterFetch(fx.up)), FALSE)

FL_text ==
  /\ fx.pc = "text" /\ fx.up.body # "stall"
  /\ FxAdvance(Caught(AfterText(fx.up)), fx.timer)

FL_json ==
  /\ fx.pc = "json" /\ fx.up.body # "stall"
  /\ FxAdvance(Caught(AfterJson(fx.up)), fx.timer)

\* ------------------------------------------- decodeHexData, called directly
CZ1 == <<"C", "Z", "1">>
MZ1 == <<"M", "Z", "1">>
SZ1 == <<"S", "Z", "1">>
GZ1 == <<"G", "Z", "1">>

\* device codes: one of each family, codes of no family (a lower-case one, one
\* with the prefix further in, one of one character, the empty one, UNKNOWN)
DeviceCodes ==
  {CZ1, MZ1, SZ1, GZ1, HZ1, XX1, <<"h", "z", "1">>, <<"X", "H", "Z">>, <<"H">>, <<>>,
   UnknownDevice}

\* 4-character chunks: the least and the greatest 16-bit value, one in upper
\* and one in lower case
Chunks ==
  {<<"0", "0", "0", "0">>, <<"F", "F", "F", "F">>, <<"0", "2", "B", "C">>,
   <<"0", "0", "f", "0">>}

SignedHex == <<"-", "0", "F", "F", "0", "7", "D", "0", "0", "0", "F", "0">>

\* payloads: three and four chunks, the empty string, one chunk, a string cut
\* inside a chunk, strings with characters that are no hex digits
HexStrings ==
  {a \o b \o c : a \in Chunks, b \in Chunks, c \in Chunks}
    \cup {a \o b \o c \o d : a \in {<<"0", "2", "B", "C">>}, b \in Chunks, c \in Chunks,
                             d \in Chunks}
    \cup {<<>>, <<"0", "2", "B", "C">>, TruncatedHex, NonHex, SignedHex, WellFormedHex,
          WellFormedHex \o <<"0", "0">>}

DxIdle == [pc |-> "idle"]

\* one call, on a device code and a payload
DX_call ==
  /\ dx.pc = "idle"
  /\ \E hex \in HexStrings, dev \in DeviceCodes :
       dx' = [pc |-> "done", hex |-> hex, dev |-> dev, out |-> decodeHexData(hex, dev)]
  /\ UNCHANGED <<storageVars, fx, gw, ax>>

\* ------------------------------------------- the gateway, accessor by accessor
\* gw.db: _db and _pool are set; gw.available: _databaseAvailable; gw.attempts:
\* runs of the try block of initializeDatabase; gw.unset and gw.failed: the two
\* warnings written to the console; gw.res: what the last run returned.
GwFresh ==
  [db |-> FALSE, available |-> FALSE, calls |-> 0, attempts |-> 0, unset |-> 0,
   failed |-> 0, acc |-> "none", threw |-> FALSE,
   res |-> [db |-> FALSE, available |-> FALSE]]

\* initializeDatabase (lines 15-44); built tells whether new Pool / drizzle throw
initializeDatabase(g, built) ==
  IF g.db
  THEN [g EXCEPT !.res = [db |-> TRUE, available |-> g.available]]
  ELSE IF ~configured
  THEN [g EXCEPT !.attempts = @ + 1, !.unset = @ + 1, !.available = FALSE,
                 !.res = [db |-> FALSE, available |-> FALSE]]
  ELSE IF built = "throws"
  THEN [g EXCEPT !.attempts = @ + 1, !.failed = @ + 1, !.available = FALSE,
                 !.res = [db |-> FALSE, available |-> FALSE]]
  ELSE [g EXCEPT !.attempts = @ + 1, !.db = TRUE, !.available = TRUE,
                 !.res = [db |-> TRUE, available |-> TRUE]]

\* one call of an accessor; the proxies throw when there is no handle
GwCall(acc, proxy) ==
  /\ \E built \in {"ok", "throws"} :
       LET g == initializeDatabase(gw, built) IN
         gw' = [g EXCEPT !.calls = @ + 1, !.acc = acc, !.threw = proxy /\ ~g.res.db]
  /\ UNCHANGED <<storageVars, fx, dx, ax>>

getDatabaseConnection ==
  /\ gw.calls < MaxGatewayCalls
  /\ GwCall("getDatabaseConnection", FALSE)

isDatabaseAvailable ==
  /\ gw.calls < MaxGatewayCalls
  /\ GwCall("isDatabaseAvailable", FALSE)

GW_db ==
  /\ gw.calls < MaxGatewayCalls
  /\ GwCall("db", TRUE)

GW_pool ==
  /\ gw.calls < MaxGatewayCalls
  /\ GwCall("pool", TRUE)

\* -------------------------------- AntaresService.fetchLatestData, step by step
\* a field of the content: absent, text that is no number, or a number
FieldValue(kind, v) == [kind |-> kind, v |-> v]

Absent == FieldValue("absent", 0)

Contents ==
  [temperature : {Absent, FieldValue("text", 0), FieldValue("number", 0),
                  FieldValue("number", 245)},
   ph : {Absent, FieldValue("number", 70)},
   tdsLevel : {Absent, FieldValue("text", 0), FieldValue("number", 0)}]

\* parseFloat(x) || 0
ParseFloatOrZero(x) == IF x.kind = "number" THEN x.v ELSE 0

AntaresData(c) ==
  [null |-> FALSE, temperature |-> ParseFloatOrZero(c.temperature),
   ph |-> ParseFloatOrZero(c.ph), tdsLevel |-> ParseFloatOrZero(c.tdsLevel)]

NoContent == [temperature |-> Absent, ph |-> Absent, tdsLevel |-> Absent]

\* What the platform does with one request: the connection, the status class,
\* and the body: not JSON, the JSON value null, an envelope without
\* m2m:cin.con, con a string that is no JSON, con the string "null", con a
\* string holding an object, con an object.
AUp(net, ok, body, c) == [net |-> net, ok |-> ok, body |-> body, con |-> c]

AntaresUpstreams ==
  {AUp("refused", TRUE, "invalid", NoContent), AUp("answers", FALSE, "invalid", NoContent)}
    \cup {AUp("answers", TRUE, b, NoContent) :
            b \in {"invalid", "null", "envelope", "conText", "conNull"}}
    \cup {AUp("answers", TRUE, b, c) : b \in {"conString", "conObject"}, c \in Contents}

\* catch (err) { console.error(...); throw err; }  (lines 75-78)
AxCaught(o) == o

\* lines 35-50 once `await fetch(url, ...)` has settled
AxAfterFetch(u) ==
  IF u.net # "answers" THEN Throw
  ELSE IF ~u.ok THEN Throw
  ELSE Await("json")

\* lines 50-74 once `await response.json()` has settled
AxAfterJson(u) ==
  IF u.body \in {"invalid", "null", "envelope"} THEN Throw
  ELSE IF u.body \in {"conText", "conNull"} THEN Ret(Null)
  ELSE Ret(AntaresData(u.con))

AxIdle == [pc |-> "idle"]

AxAdvance(o) ==
  /\ ax' = [ax EXCEPT !.pc = IF o.kind = "await" THEN o.at ELSE "done", !.res = o]
  /\ UNCHANGED <<storageVars, fx, dx, gw>>

\* lines 30-42; without credentials the request carries no valid key and
\* identifiers, which the platform does not answer with a 2xx
AX_call ==
  /\ ax.pc \in {"idle", "done"}
  /\ \E creds \in BOOLEAN, u \in AntaresUpstreams :
       /\ ~creds => (u.net # "answers" \/ ~u.ok)
       /\ ax' = [pc |-> "fetch", creds |-> creds, up |-> u, res |-> Await("fetch")]
  /\ UNCHANGED <<storageVars, fx, dx, gw>>

AX_settle ==
  /\ ax.pc = "fetch"
  /\ AxAdvance(AxCaught(AxAfterFetch(ax.up)))

AX_json ==
  /\ ax.pc = "json"
  /\ AxAdvance(AxCaught(AxAfterJson(ax.up)))

\* ----------------------------------------------------------- specification
\* The state right after `new DatabaseStorage()` on a fresh store: the
\* synchronous head of initializeDefaults has run (flag down when the gateway
\* is unavailable), its first query is in flight otherwise.
Init ==
  /\ configured \in BOOLEAN
  /\ env \in {"development", "production"}
  /\ now = StartTime
  /\ readings = <<>> /\ statusRows = <<>> /\ alertRows = <<>>
  /\ databaseAvailable = configured
  /\ lastExternalFetchTime = 0
  /\ fallbackData = [systemStatus |-> FallbackStatus, alertSettings |-> DefaultAlerts,
                     sensorReadings |-> <<>>]
  /\ initPc = IF configured THEN "I_test" ELSE "done"
  /\ pc = [p \in Procs |-> "idle"]
  /\ op = [p \in Procs |-> "none"]
  /\ loc = [p \in Procs |-> Locals0]
  /\ step = NoStep /\ ret = NoRet /\ xfetch = NoFetch
  /\ hist = [failed |-> FALSE, clientConn |-> FALSE, alertsSet |-> FALSE, calls |-> 0,
             alerts |-> <<>>]
  /\ fx = FxIdle
  /\ dx = DxIdle
  /\ gw = GwFresh
  /\ ax = AxIdle

InitDefaults ==
  \/ I_test_ok \/ I_selStatus_ok \/ I_insStatus_ok \/ I_selAlerts_ok \/ I_insAlerts_ok
  \/ I_fail

Start(p) ==
  \/ StartGetSensorReadings(p)
  \/ StartGetSensorReadingsByTimeRange(p)
  \/ StartCreateSensorReading(p)
  \/ StartGetSystemStatus(p)
  \/ StartUpdateSystemStatus(p)
  \/ StartGetAlertSettings(p)
  \/ StartUpdateAlertSettings(p)

Resume(p) ==
  \/ F_cache_ok(p) \/ F_cache_fail(p) \/ F_ext(p)
  \/ F_insert_ok(p) \/ F_count_ok(p) \/ F_store_fail(p)
  \/ U_select_ok(p) \/ U_insert_ok(p) \/ U_update_ok(p) \/ U_fail(p)
  \/ G_select_ok(p) \/ G_seed_ok(p) \/ G_fail(p)
  \/ R_select_ok(p) \/ R_select_fail(p)
  \/ C_insert_ok(p) \/ C_count_ok(p) \/ C_fail(p)
  \/ S_select_ok(p) \/ S_select_fail(p)
  \/ A_select_ok(p) \/ A_select_fail(p)
  \/ V_select_ok(p) \/ V_insert_ok(p) \/ V_update_ok(p) \/ V_fail(p)

\* one caller at a time: an operation starts when no other is in flight
Quiet == initPc = "done" /\ \A q \in Procs : Idle(q)

Next ==
  \/ Tick
  \/ InitDefaults
  \/ \E p \in {"p1"} : (Quiet /\ Start(p)) \/ Resume(p)

Spec == Init /\ [][Next]_vars

\* Overlapping callers on a healthy store: reads and writes of readings start
\* while others, and the constructor's initializeDefaults, are in flight, and
\* every store operation succeeds.
InitDefaultsOk ==
  \/ I_test_ok \/ I_selStatus_ok \/ I_insStatus_ok \/ I_selAlerts_ok \/ I_insAlerts_ok

StartIngest(p) ==
  \/ StartGetSensorReadings(p)
  \/ StartCreateSensorReading(p)

ResumeHealthy(p) ==
  \/ F_cache_ok(p) \/ F_ext(p) \/ F_insert_ok(p) \/ F_count_ok(p)
  \/ U_select_ok(p) \/ U_insert_ok(p) \/ U_update_ok(p)
  \/ G_select_ok(p) \/ G_seed_ok(p)
  \/ C_insert_ok(p) \/ C_count_ok(p)

NextOverlap ==
  \/ Tick
  \/ InitDefaultsOk
  \/ \E p \in Procs : StartIngest(p) \/ ResumeHealthy(p)

SpecOverlap == Init /\ [][NextOverlap]_vars

\* The three operations on readings alone, one caller at a time, every store
\* query free to fail.
StartReadings(p) ==
  \/ StartGetSensorReadings(p)
  \/ StartGetSensorReadingsByTimeRange(p)
  \/ StartCreateSensorReading(p)

ResumeReadings(p) ==
  \/ F_cache_ok(p) \/ F_cache_fail(p) \/ F_ext(p)
  \/ F_insert_ok(p) \/ F_count_ok(p) \/ F_store_fail(p)
  \/ U_select_ok(p) \/ U_insert_ok(p) \/ U_update_ok(p) \/ U_fail(p)
  \/ G_select_ok(p) \/ G_seed_ok(p) \/ G_fail(p)
  \/ R_select_ok(p) \/ R_select_fail(p)
  \/ C_insert_ok(p) \/ C_count_ok(p) \/ C_fail(p)

NextReadings ==
  \/ Tick
  \/ InitDefaults
  \/ \E p \in {"p1"} : (Quiet /\ StartReadings(p)) \/ ResumeReadings(p)

SpecReadings == Init /\ [][NextReadings]_vars

\* The operations on readings called from module load on: the constructor does
\* not await initializeDefaults (line 124), so a call may start and run while
\* it is in flight.  One caller at a time, every store query free to fail.
CallersIdle == \A q \in Procs : Idle(q)

NextStartup ==
  \/ Tick
  \/ InitDefaults
  \/ \E p \in {"p1"} : (CallersIdle /\ StartReadings(p)) \/ ResumeReadings(p)

SpecStartup == Init /\ [][NextStartup]_vars

\* One call of fetchLatestReading after another, each against an upstream of
\* its own, with the clock running.
NextFetcher == FL_call \/ FL_tick \/ FL_abort \/ FL_settle \/ FL_text \/ FL_json

SpecFetcher == Init /\ [][NextFetcher]_vars

\* decodeHexData called on each device code and payload
NextDecoder == DX_call

SpecDecoder == Init /\ [][NextDecoder]_vars

\* Overlapping writers of the singleton tables on a healthy store: the two
\* updates and the inserts that recount into the status row start while others,
\* and the constructor's initializeDefaults, are in flight.
StartSettings(p) ==
  \/ StartUpdateSystemStatus(p)
  \/ StartUpdateAlertSettings(p)
  \/ StartCreateSensorReading(p)

ResumeSettings(p) ==
  \/ U_select_ok(p) \/ U_insert_ok(p) \/ U_update_ok(p)
  \/ V_select_ok(p) \/ V_insert_ok(p) \/ V_update_ok(p)
  \/ C_insert_ok(p) \/ C_count_ok(p)

NextSingletons ==
  \/ InitDefaultsOk
  \/ \E p \in Procs : StartSettings(p) \/ ResumeSettings(p)

SpecSingletons == Init /\ [][NextSingletons]_vars

\* The gateway alone: one accessor called after another from module load on.
NextGateway == getDatabaseConnection \/ isDatabaseAvailable \/ GW_db \/ GW_pool

SpecGateway == Init /\ [][NextGateway]_vars

\* One call of AntaresService.fetchLatestData after another.
NextAntares == AX_call \/ AX_settle \/ AX_json

SpecAntares == Init /\ [][NextAntares]_vars

\* ------------------------------------------------------------------ claims
SeedRows == {i \in DOMAIN readings : readings[i].kind = "seed"}

\* C1: whenever a store query or insert of an orchestrator operation (or of the
\* constructor's initializeDefaults) has failed, the availability flag is false
\* in the state its catch block leaves behind.
C1_FailureDegrades == step.outcome = "fail" => ~databaseAvailable

\* a read of a LIVE orchestrator whose select failed
C1_Witness == step.outcome = "fail" /\ step.at = "G_select" /\ ~databaseAvailable

\* C2: an operation that completed a store query or insert successfully while
\* the flag was down, with no store failure since, leaves the orchestrator LIVE
\* when it returns.
C2_SuccessRecovers == (ret.kind = "ret" /\ ret.probe) => databaseAvailable

\* C3: a getSensorReadings call whose store read has failed answers from the
\* fallback set on that pass: it does not fail a store read a second time.
C3_NoRetryLoop == \A p \in Procs : loc[p].retries <= 1

\* C4: while a persistence failure keeps the orchestrator DEGRADED, the status
\* getSystemStatus returns has connectionStatus error or disconnected.
C4_DegradedStatusNotConnected ==
  (ret.kind = "ret" /\ ret.op = "getSystemStatus" /\ hist.failed /\ ~databaseAvailable)
    => ret.val.connectionStatus \in {"error", "disconnected"}

C6_RecountAfterOverlap ==
  (/\ initPc = "done" /\ \A q \in Procs : Idle(q)
   /\ ~hist.failed /\ Len(statusRows) = 1 /\ SeedRows = {})
    => statusRows[1].dataPoints = Len(readings)

\* C7: in a sequential run on a healthy store, dataPoints equals the persisted
\* row count after each operation, seed inserts of getSensorReadings included.
C7_RecountAfterEveryInsert ==
  (Quiet /\ ~hist.failed /\ Len(statusRows) = 1)
    => statusRows[1].dataPoints = Len(readings)

\* C8: the readings table never holds more than one seed reading.
C8_AtMostOneSeed == Cardinality(SeedRows) <= 1

\* C9: in production no synthetic reading is ever a row of the readings table,
\* and a getSensorReadings that finds no row answers with exactly one in-memory
\* synthetic reading, which it keeps in the fallback list.
C9_NoSyntheticPersistedInProduction ==
  env = "production" =>
    /\ \A i \in DOMAIN readings : readings[i].kind \notin Synthetic
    /\ \A p \in Procs : pc[p] # "G_seed"
    /\ (ret.kind = "ret" /\ ret.op = "getSensorReadings" /\ ret.src \in {"empty", "seed"})
         => /\ ret.src = "empty"
            /\ Len(ret.val) = 1
            /\ ret.val[1].kind = "fallback"
            /\ fallbackData.sensorReadings = ret.val

C9_Witness ==
  /\ env = "production" /\ readings = <<>>
  /\ ret.kind = "ret" /\ ret.op = "getSensorReadings" /\ ret.src = "empty"

\* C10: an external fetch is issued only when the freshness window since the
\* last external fetch has elapsed and the gateway is available.
C10_FetchOnlyWhenStaleAndAvailable ==
  xfetch.kind = "issued" => (~xfetch.fresh /\ xfetch.avail)

ReadOps == {"getSensorReadings", "getSensorReadingsByTimeRange", "getSystemStatus",
            "getAlertSettings"}

\* C11: a read of the orchestrator that ends, ends by returning a value, never
\* by throwing, whatever store queries failed, whatever the external fetch
\* answered and whether or not the gateway is available.
C11_ReadsNeverThrow == (ret.kind # "none" /\ ret.op \in ReadOps) => ret.kind = "ret"

\* a time-range read whose store query failed has returned the fallback list
C11_Witness ==
  /\ ret.kind = "ret" /\ ret.op = "getSensorReadingsByTimeRange"
  /\ step.outcome = "fail" /\ step.at = "R_select" /\ ret.val = fallbackData.sensorReadings

\* timeout, DNS failure, connection refused
Transient(u) == u.net \in {"refused", "silent"}

\* C12: when the external fetch of a read fails on the network, the fetcher
\* answers null and the orchestrator is DEGRADED afterwards.
C12_NetworkFailureDegrades ==
  (step.outcome = "fetch" /\ Transient(Answer(step.up)))
    => (fetchLatestReading(Answer(step.up)).null /\ ~databaseAvailable)

FieldWidth(dev) == IF StartsWith(dev, "C", "Z") THEN 16 ELSE 12

HexOk(hex, dev) ==
  Len(hex) >= FieldWidth(dev) /\ \A i \in 1..FieldWidth(dev) : IsHexChar(hex[i])

\* a 2xx answer with a content-type other than JSON, or a JSON object without
\* encoded_data, or one whose hex is truncated or holds non-hex characters
MalformedPayload(u) ==
  /\ u.net = "answers" /\ u.ok
  /\ \/ u.ctype # "json"
     \/ /\ u.body = "object"
        /\ \/ u.data.encoded_data = <<>>
           \/ ~HexOk(u.data.encoded_data, u.data.device_code)

\* C13: on a malformed upstream payload fetchLatestReading answers null and the
\* read goes on without inserting a reading into the store.
C13_MalformedIsNullAndNotStored ==
  (step.outcome = "fetch" /\ MalformedPayload(Answer(step.up)))
    => (fetchLatestReading(Answer(step.up)).null /\ pc[step.p] # "F_insert")

\* C14: getSensorReadingsByTimeRange(start, end) with start after end returns
\* the empty sequence.
C14_ReversedRangeIsEmpty ==
  (ret.kind = "ret" /\ ret.op = "getSensorReadingsByTimeRange" /\ ret.arg[1] > ret.arg[2])
    => ret.val = <<>>

Ascending(s) == \A i \in 1..(Len(s) - 1) : s[i].at <= s[i + 1].at

\* C15: getSensorReadingsByTimeRange returns the persisted readings of the
\* range in ascending timestamp order when the orchestrator is LIVE, and the
\* full fallback list when it is DEGRADED.
C15_RangeFromStoreOrFallback ==
  (ret.kind = "ret" /\ ret.op = "getSensorReadingsByTimeRange")
    => IF databaseAvailable
       THEN ret.val = SelectSeq2(readings, ret.arg[1], ret.arg[2]) /\ Ascending(ret.val)
       ELSE ret.val = fallbackData.sensorReadings

\* the step returns from caller p's createSensorReading
CreateReturns(p) ==
  /\ ret'.kind = "ret" /\ ret'.p = p /\ ret'.op = "createSensorReading"
  /\ op[p] = "createSensorReading" \/ (Idle(p) /\ hist'.calls > hist.calls)

\* the gateway is unavailable, or the insert or its recount failed in this step
CreateFailed ==
  ~Available \/ (step'.outcome = "fail" /\ step'.at \in {"C_insert", "C_count"})

C16_Step(p) ==
  (op[p] = "createSensorReading" \/ CreateReturns(p)) =>
    IF CreateReturns(p) /\ CreateFailed
    THEN /\ ret'.val.kind = "memory"
         /\ fallbackData'.sensorReadings = <<ret'.val>> \o fallbackData.sensorReadings
    ELSE /\ fallbackData'.sensorReadings = fallbackData.sensorReadings
         /\ CreateReturns(p) => ret'.val.kind = "manual"

\* C16: a createSensorReading that finds the gateway unavailable, or whose
\* insert or recount fails, returns a reading with a synthesized identifier and
\* puts it in front of the fallback list, the earlier entries following in
\* their order; every other step of createSensorReading, its successful return
\* included, leaves the fallback list as it is.
C16_CreateFallbackPrepends == [][\A p \in Procs : C16_Step(p)]_vars

\* a failed create has put its reading in front of an earlier, different entry
C16_Witness ==
  /\ ret.kind = "ret" /\ ret.op = "createSensorReading" /\ ret.src = "fallback"
  /\ step.outcome = "fail"
  /\ Len(fallbackData.sensorReadings) >= 2
  /\ fallbackData.sensorReadings[1] = ret.val
  /\ fallbackData.sensorReadings[2] # ret.val

\* C17: getSensorReadings(limit) returns at most limit readings.
C17_AtMostLimit ==
  (ret.kind = "ret" /\ ret.op = "getSensorReadings") => Len(ret.val) <= ret.limit

\* C18: a getSensorReadings that answers from the fallback path after its own
\* external fetch delivered a reading returns that reading first.
C18_FetchedReadingServed ==
  (ret.kind = "ret" /\ ret.op = "getSensorReadings" /\ ret.src = "fallback"
     /\ ret.ext /\ ret.limit >= 1)
    => ret.val[1].kind = "ext"

\* the stages of fetchLatestReading that fail on upstream u
FetchFailure(u) ==
  \/ u.net # "answers"
  \/ ~u.ok
  \/ u.ctype # "json"
  \/ u.body # "object"
  \/ u.data.encoded_data = <<>>
  \/ ~StartsWith(IF u.data.device_code = <<>> THEN UnknownDevice ELSE u.data.device_code,
                 "H", "Z")

\* C19: a call of fetchLatestReading that ends, ends by returning, never by
\* throwing to its caller, and returns null on a network error, a non-2xx
\* answer, a wrong content-type, a body that does not parse, a missing
\* encoded_data field and a null from the decoder.
C19_FetcherNeverThrows ==
  fx.pc = "done" =>
    /\ fx.res.kind = "return"
    /\ FetchFailure(fx.up) => fx.res.val.null

\* a 2xx JSON answer whose body does not parse has become null
C19_Witness ==
  /\ fx.pc = "done" /\ fx.res.kind = "return" /\ fx.res.val.null
  /\ fx.up.net = "answers" /\ fx.up.ok /\ fx.up.ctype = "json" /\ fx.up.body = "invalid"

\* C20: a call of fetchLatestReading is never pending, and never completes,
\* later than the 10-second bound after it was made.
C20_CompletesWithinBound == fx.pc # "idle" => fx.elapsed <= FetchTimeout

IsNull(v) == "null" \in DOMAIN v

KnownFamily(dev) ==
  \E a \in {"C", "M", "S", "G", "H"} : StartsWith(dev, a, "Z")

\* C21: for a device code of a known family, decodeHexData returns null when
\* the payload is shorter than the family's fields (the empty string included),
\* is cut inside a 4-character chunk, or holds a character that is no hex digit.
C21_MalformedDecodesToNull ==
  (dx.pc = "done" /\ KnownFamily(dx.dev) /\ ~HexOk(dx.hex, dx.dev)) => IsNull(dx.out)

\* C22: decodeHexData returns null for every device code that starts with none
\* of CZ, MZ, SZ, GZ, HZ, whatever the payload.
C22_UnknownPrefixIsNull ==
  (dx.pc = "done" /\ ~KnownFamily(dx.dev)) => IsNull(dx.out)

\* a well-formed payload under device code XX1 has been decoded to null
C22_Witness == dx.pc = "done" /\ dx.dev = XX1 /\ dx.hex = WellFormedHex /\ IsNull(dx.out)

\* the fields of each family in payload order, with their scales
Layout(dev) ==
  IF StartsWith(dev, "C", "Z")
  THEN <<[f |-> "ph", d |-> 100], [f |-> "moisture", d |-> 10], [f |-> "ec", d |-> 100],
         [f |-> "temperature", d |-> 10]>>
  ELSE IF StartsWith(dev, "M", "Z") \/ StartsWith(dev, "S", "Z")
  THEN <<[f |-> "ph", d |-> 100], [f |-> "ec", d |-> 100], [f |-> "temperature", d |-> 10]>>
  ELSE IF StartsWith(dev, "G", "Z")
  THEN <<[f |-> "temperature", d |-> 10], [f |-> "humidity", d |-> 10],
         [f |-> "light", d |-> 1]>>
  ELSE <<[f |-> "ph", d |-> 100], [f |-> "tdsLevel", d |-> 10],
         [f |-> "temperature", d |-> 10]>>

\* the k-th 4-character chunk (from 0) as a 16-bit unsigned integer
Chunk16(hex, k) ==
  4096 * DigitVal(hex[4 * k + 1]) + 256 * DigitVal(hex[4 * k + 2])
    + 16 * DigitVal(hex[4 * k + 3]) + DigitVal(hex[4 * k + 4])

\* C23: for a well-formed payload decodeHexData yields exactly the fields of
\* the family's layout, the k-th field being the k-th 4-character chunk read
\* as a 16-bit unsigned integer over the field's scale; characters past the
\* last field do not matter.
C23_LayoutAndScale ==
  (dx.pc = "done" /\ KnownFamily(dx.dev) /\ HexOk(dx.hex, dx.dev)) =>
    LET lay == Layout(dx.dev) IN
      /\ DOMAIN dx.out = {lay[k].f : k \in DOMAIN lay}
      /\ \A k \in DOMAIN lay :
           /\ dx.out[lay[k].f] = Num(Chunk16(dx.hex, k - 1), lay[k].d)
           /\ Chunk16(dx.hex, k - 1) \in 0..65535

\* a four-chunk payload with a lower-case chunk decoded under the CZ layout
C23_Witness ==
  /\ dx.pc = "done" /\ dx.dev = CZ1 /\ Len(dx.hex) = 16
  /\ dx.out.ph = Num(700, 100) /\ dx.out.moisture = Num(65535, 10)
  /\ dx.out.ec = Num(240, 100) /\ dx.out.temperature = Num(0, 10)

\* C25: without a connection string every call of the gateway's accessor
\* reports unavailable with no handle, the absence is logged exactly once, and
\* calls after the first do not run the initialization attempt again.
C25_UnconfiguredLoggedOnce ==
  (~configured /\ gw.calls >= 1) =>
    /\ ~gw.res.available /\ ~gw.res.db
    /\ gw.unset = 1
    /\ gw.attempts = 1

\* C30: a call of AntaresService.fetchLatestData that ends, ends by returning
\* a value to its caller, a failure value when the request failed, never by
\* an exception, with credentials or without.
C30_AntaresNeverThrows == ax.pc = "done" => ax.res.kind = "return"

\* lo <= x <= hi for a number x = num / den
Within(x, lo, hi) == ~x.nan /\ lo * x.den <= x.num /\ x.num <= hi * x.den

\* the ranges of insertSensorReadingSchema
InRange(r) ==
  /\ Within(r.temperature, 0 - 50, 100)
  /\ Within(r.ph, 0, 14)
  /\ Within(r.tdsLevel, 0, 2000)

\* C24: the reading that the priming external fetch hands to the insert into
\* the readings table has temperature in [-50,100], ph in [0,14] and tdsLevel
\* in [0,2000], whatever 16-bit values the payload encodes.
C24_CreatedReadingInRange ==
  (step.outcome = "fetch" /\ pc[step.p] = "F_insert")
    => InRange(fetchLatestReading(Answer(step.up)))

\* C26: the fallback reading list has a maximum length: however many
\* createSensorReading calls are made while the store is unavailable or
\* failing, the list stays shorter than the length up to which these calls are
\* followed here.
C26_FallbackListBounded == Len(fallbackData.sensorReadings) < MaxFallback

\* C27: the system status table and the alert settings table each hold at most
\* one row, however initializeDefaults, updateSystemStatus (called by clients
\* and by inserts) and updateAlertSettings overlap on empty tables.
C27_SingletonTables == Len(statusRows) <= 1 /\ Len(alertRows) <= 1

\* the step belongs to a call of updateAlertSettings
ByUpdateAlertSettings ==
  \E p \in Procs :
    \/ op[p] = "updateAlertSettings" /\ step'.outcome # "none" /\ step'.p = p
    \/ /\ Idle(p) /\ step'.outcome = "none" /\ hist'.calls > hist.calls
       /\ \/ op'[p] = "updateAlertSettings"
          \/ ret'.kind = "ret" /\ ret'.p = p /\ ret'.op = "updateAlertSettings"

\* initializeDefaults puts the default row into the empty table
DefaultRowCreated ==
  /\ step'.outcome = "ok" /\ step'.p = "init"
  /\ alertRows = <<>> /\ alertRows' = <<DefaultAlerts>>
  /\ fallbackData'.alertSettings = fallbackData.alertSettings

C28_Step ==
  /\ (alertRows' # alertRows \/ fallbackData'.alertSettings # fallbackData.alertSettings)
       => (ByUpdateAlertSettings \/ DefaultRowCreated)
  /\ (ret'.kind = "ret" /\ ret'.op = "getAlertSettings" /\ ~hist'.alertsSet)
       => ret'.val = DefaultAlerts

C29_AtMostOneFetchPerCall == xfetch.kind = "issued" => ~xfetch.again

\* C31: a getSensorReadings call with a limit of 1 or more that returns, returns
\* at least one reading, whatever the flag, the table, the fallback list, the
\* environment and the external fetch were.
C31_AtLeastOneReading ==
  (ret.kind = "ret" /\ ret.op = "getSensorReadings" /\ ret.limit >= 1)
    => Len(ret.val) >= 1

\* the call answered from an empty fallback list, with the sample it put there
C31_Witness ==
  /\ ret.kind = "ret" /\ ret.op = "getSensorReadings" /\ ret.limit >= 1
  /\ ret.src = "fallback" /\ Len(ret.val) = 1 /\ ret.val[1].kind = "sample"
  /\ fallbackData.sensorReadings = ret.val

\* the readings createSensorReading has placed in a fallback list, in its order
MemoryEntries(list) == SelectSeq(list, LAMBDA r : r.kind = "memory")

IsSuffix(a, b) == Len(a) <= Len(b) /\ SubSeq(b, Len(b) - Len(a) + 1, Len(b)) = a

\* C32: every step keeps the readings that createSensorReading has placed in
\* the fallback list: they follow whatever the step puts in front of them.
C32_FallbackEntriesStay ==
  [][IsSuffix(MemoryEntries(fallbackData.sensorReadings),
              MemoryEntries(fallbackData'.sensorReadings))]_vars

\* C33: once an updateAlertSettings has returned, a getAlertSettings that
\* returns, returns the settings of the last update that returned, whatever
\* store queries failed or succeeded in between or in the two calls.
C33_GetReturnsLastUpdate ==
  (ret.kind = "ret" /\ ret.op = "getAlertSettings" /\ hist.alerts # <<>>)
    => ret.val = hist.alerts[1]

\* C34: no step lowers lastExternalFetchTime, however the reads overlap.
C34_FetchTimeNeverDecreases ==
  [][lastExternalFetchTime' >= lastExternalFetchTime]_vars
====
